---- MODULE Spec2Model ----
(***************************************************************************)
(* Model of the DGT ingestion backend (src/backend): the reconciliation    *)
(* of one source's parsed feed against the beacons table                   *)
(* (worker.sync_beacons_to_db) and the sync cycle (worker.run_sync_task,   *)
(* worker.fetch_and_parse_source, worker.fetch_xml).                       *)
(*                                                                         *)
(* The persisted store is the pair (beacons, sync_logs): the committed     *)
(* rows of the two tables.  What a session holds and has not committed is  *)
(* local to the operators below and is lost when the session is closed by  *)
(* an exception.                                                           *)
(*                                                                         *)
(* A parsed record is abstracted to its external_id, one payload standing  *)
(* for the mutable fields copied at worker.py:149-160, and the flag detail *)
(* telling whether the instance carries the attributes                     *)
(* source_identification and detailed_cause_type that worker.py:161-162    *)
(* and 183-184 read.  The dataclass of parser.py:14-28 declares neither,   *)
(* so the records built at parser.py:207 and 332 have detail = FALSE and   *)
(* reading the attribute raises AttributeError.                            *)
(***************************************************************************)
EXTENDS Integers, Sequences, FiniteSets, TLC

\* ---------------------------------------------------------------- bounds
\* longest list handed to sync_beacons_to_db when it is called on its own
MaxSyncFeedLen == 1

\* number of such calls
MaxCalls == 2

\* number of run_sync_task invocations
MaxCycles == 2

\* number of situation records in a document handed to a parser
MaxRecords == 2

\* number of name descriptors in a situation record of a v1.0 document
MaxNames == 2

\* number of characters of a road name handed to classify_road_type
MaxNameLen == 4
\* longest time string, in tokens
MaxTokens == 5
\* longest xsi:type value, in tokens
MaxTypeLen == 2
\* steps of time.time() in SpecRate, SpecCache and SpecApi
MaxAdvances == 3
\* requests to /api/v1/beacons
MaxRequests == 3
\* calls of sync_beacons_to_db in a row, one after the other, in SpecRounds
MaxRounds == 3

\* ------------------------------------------------------- program constants
\* worker.DataSource, in definition order (the order zip(DataSource, results) walks)
DataSource == <<"nacional", "pais_vasco", "cataluna">>

Sources == {DataSource[i] : i \in DOMAIN DataSource}

\* Python None in an integer-valued column or field
NULL == -1

\* Python None in a string-valued field
NoneStr == "None"

\* ------------------------------------------------------------ input domains
ExternalIds == {"ext-1", "ext-2"}

Payloads == {"p1", "p2"}

\* parser.ParsedBeacon instances
ParsedBeacon(e, p, d) == [external_id |-> e, payload |-> p, detail |-> d]

\* the payload of an instance without the detail attributes never reaches a row
ParsedBeacons ==
    {ParsedBeacon(e, p, TRUE) : e \in ExternalIds, p \in Payloads}
        \cup {ParsedBeacon(e, "p1", FALSE) : e \in ExternalIds}

SeqsUpTo(S, n) == UNION {[1..k -> S] : k \in 0..n}

\* the lists sync_beacons_to_db is applied to
SyncFeeds == SeqsUpTo(ParsedBeacons, MaxSyncFeedLen)

\* the lists a parser hands to a cycle
CycleFeeds ==
    { <<>>,
      <<ParsedBeacon("ext-1", "p1", TRUE)>>,
      <<ParsedBeacon("ext-1", "p2", TRUE), ParsedBeacon("ext-2", "p1", TRUE)>>,
      <<ParsedBeacon("ext-1", "p1", TRUE), ParsedBeacon("ext-1", "p1", TRUE)>>,
      <<ParsedBeacon("ext-1", "p1", FALSE)>> }

VARIABLES
    beacons,     \* committed rows of table "beacons", in insertion order
    sync_logs,   \* committed rows of table "sync_logs", in insertion order
    clock,       \* datetime.utcnow()
    pc,          \* run_sync_task: "idle" | "fetching"
    cycle,       \* number of run_sync_task invocations started
    results,     \* per source, what its fetch_and_parse_source task produced
    raised,      \* whether the last run_sync_task / sync_beacons_to_db call raised
    snapshot,    \* beacons as they were when the last cycle was started
    calls,       \* per source, the sync_beacons_to_db calls made so far (last two)
    fetch,       \* per source, the fetch_xml call of its task, followed call by call
    tasks,       \* per invocation of run_sync_task on the event loop, where it stands
    running,     \* the invocation the event loop is executing, between two awaits
    app,         \* the last call of one of the functions of parser.py / main.py that
                 \* are followed on their own: [fn, arg, out]
    done,        \* the sources of the last cycle's tasks, in the order they finished
    geo,         \* module geospatial: time.time(), _last_request_time, _isolation_cache,
                 \* the coroutines inside calculate_real_isolation_score, the times at
                 \* which requests were sent, the last value returned
    api          \* get_beacons of module main: time.time(), _beacons_cache, the number
                 \* of requests served, the last response (or exception)

vars == <<beacons, sync_logs, clock, pc, cycle, results, raised, snapshot, calls, fetch,
          tasks, running, app, done, geo, api>>

\* ------------------------------------------------------------ models.Beacon
Beacon(id, parsed, source, now) ==
    [ id          |-> id,
      external_id |-> parsed.external_id,
      source      |-> source,
      payload     |-> parsed.payload,
      is_active   |-> TRUE,
      created_at  |-> now,
      updated_at  |-> now,
      deleted_at  |-> NULL ]

\* models.SyncLog with its column defaults
SyncLog(source, started, cyc) ==
    [ source              |-> source,
      cycle               |-> cyc,
      sync_started_at     |-> started,
      sync_completed_at   |-> NULL,
      beacons_in_feed     |-> 0,
      beacons_created     |-> 0,
      beacons_updated     |-> 0,
      beacons_deactivated |-> 0,
      success             |-> TRUE,
      error_message       |-> NoneStr ]

\* ------------------------------------------------- worker.sync_beacons_to_db
\* current_ids = {b.external_id for b in beacons}
CurrentIds(feed) == {feed[i].external_id : i \in DOMAIN feed}

ExistingBeacons_anySource(rows, source) == {i \in DOMAIN rows : rows[i].is_active}

\* select(Beacon).where(source == source_value, is_active == True): row positions
ExistingBeacons(rows, source) ==
    {i \in DOMAIN rows : rows[i].source = source /\ rows[i].is_active}

\* (variant: no row is ever matched)
ExistingMaps_empty(rows, source) == {<<>>}

\* existing_map = {b.external_id: b for b in existing_beacons}: one row per id; the
\* query has no ORDER BY, so any of several active rows of one id may be the one kept
ExistingMaps(rows, source) ==
    LET ex  == ExistingBeacons(rows, source)
        ids == {rows[i].external_id : i \in ex}
    IN  {m \in [ids -> ex] : \A e \in ids : rows[m[e]].external_id = e}

\* reading parsed.source_identification / parsed.detailed_cause_type
RaisesAttributeError(parsed) == ~parsed.detail

\* (variant: updated_at is left alone)
UpdateBeacon_noTouch(row, parsed, now) == [row EXCEPT !.payload = parsed.payload]

\* the update branch, worker.py:147-165
UpdateBeacon(row, parsed, now) ==
    [row EXCEPT !.payload = parsed.payload, !.updated_at = now]

\* the create branch, worker.py:167-189
CreateBeacon_revive(rows, parsed, source, now) ==
    IF \E i \in DOMAIN rows : /\ rows[i].external_id = parsed.external_id
                              /\ rows[i].source = source
    THEN LET i == CHOOSE j \in DOMAIN rows : /\ rows[j].external_id = parsed.external_id
                                             /\ rows[j].source = source
         IN  [rows EXCEPT ![i].is_active = TRUE, ![i].deleted_at = NULL,
                          ![i].payload = parsed.payload, ![i].updated_at = now]
    ELSE Append(rows, Beacon(Len(rows) + 1, parsed, source, now))

\* "beacon = Beacon(...); session.add(beacon)": the row gets the next id
CreateBeacon(rows, parsed, source, now) ==
    Append(rows, Beacon(Len(rows) + 1, parsed, source, now))

\* one iteration of "for parsed in beacons": the update branch assigns the fields of
\* the matched row, the create branch builds a new row; either reads the two detail
\* attributes of parsed on the way and raises when the instance has none.  In the
\* update branch the assignments of worker.py:149-160 are made before line 161 raises:
\* the session then holds the row with the new field values.
UpsertStep(st, parsed, existing_map, source, now) ==
    IF parsed.external_id \in DOMAIN existing_map
    THEN LET i == existing_map[parsed.external_id]
         IN  IF RaisesAttributeError(parsed)
             THEN [st EXCEPT !.raised = TRUE, !.rows[i].payload = parsed.payload]
             ELSE [st EXCEPT !.rows[i] = UpdateBeacon(st.rows[i], parsed, now),
                             !.updated = @ + 1]
    ELSE IF RaisesAttributeError(parsed)
         THEN [st EXCEPT !.raised = TRUE]
         ELSE [st EXCEPT !.rows = CreateBeacon(st.rows, parsed, source, now),
                         !.created = @ + 1]

RECURSIVE UpsertLoop(_, _, _, _, _)
UpsertLoop(st, feed, existing_map, source, now) ==
    IF feed = <<>> \/ st.raised
    THEN st
    ELSE UpsertLoop(UpsertStep(st, Head(feed), existing_map, source, now),
                    Tail(feed), existing_map, source, now)

\* (variant: no row is ever found stale)
IsStale_never(existing, current_ids) == FALSE

\* "if existing.external_id not in current_ids"
IsStale(existing, current_ids) == existing.external_id \notin current_ids

\* (variant: deleted_at is left alone)
Deactivate_noStamp(row, now) == [row EXCEPT !.is_active = FALSE]

\* the body of the stale loop, worker.py:195-197
Deactivate(row, now) == [row EXCEPT !.is_active = FALSE, !.deleted_at = now]

\* (variant: the stale rows are deleted, session.delete(existing))
DeactivateStale_delete(rows, existing, current_ids, now) ==
    LET keep == {i \in DOMAIN rows : ~(i \in existing /\ IsStale(rows[i], current_ids))}
        n == Cardinality(keep)
        f == CHOOSE g \in [1..n -> keep] : \A a, b \in 1..n : a < b => g[a] < g[b]
    IN  [k \in 1..n |-> rows[f[k]]]

\* the stale loop, worker.py:191-198, over the rows selected at the start of the call
DeactivateStale(rows, existing, current_ids, now) ==
    [i \in DOMAIN rows |->
        IF i \in existing /\ IsStale(rows[i], current_ids)
        THEN Deactivate(rows[i], now)
        ELSE rows[i]]

\* (variant: every selected row is counted)
StaleCount_all(rows, existing, current_ids) == Cardinality(existing)

\* deactivated_count, worker.py:192-198
StaleCount(rows, existing, current_ids) ==
    Cardinality({i \in existing : IsStale(rows[i], current_ids)})

\* (variant: what the session held is written through, as with a commit per record)
RolledBack_flushed(committed, held) == held

\* an exception leaves sync_beacons_to_db before session.commit(): the session is closed
\* ("with Session(engine) as session") and what it held is rolled back
RolledBack(committed, held) == committed

\* sync_beacons_to_db(session, feed, source) on the committed rows, with existing_map
\* as the query returned it.  raised = TRUE: an exception left the function before
\* session.commit().
SyncBeaconsToDb(rows, feed, source, existing_map, now) ==
    LET existing == ExistingBeacons(rows, source)
        current  == CurrentIds(feed)
        up == UpsertLoop([rows |-> rows, created |-> 0, updated |-> 0, raised |-> FALSE],
                         feed, existing_map, source, now)
    IN  IF up.raised
        THEN [raised |-> TRUE, rows |-> RolledBack(rows, up.rows),
              metrics |-> [in_feed |-> 0, created |-> 0, updated |-> 0, deactivated |-> 0]]
        ELSE [raised |-> FALSE,
              rows |-> DeactivateStale(up.rows, existing, current, now),
              metrics |-> [in_feed     |-> Len(feed),
                           created     |-> up.created,
                           updated     |-> up.updated,
                           deactivated |-> StaleCount(rows, existing, current)]]

\* the record of one call kept in calls
CallRecord(feed, before, r, cyc) ==
    [feed |-> feed, before |-> before, raised |-> r.raised, metrics |-> r.metrics,
     cycle |-> cyc]

Remember(hist, c) == IF Len(hist) < 2 THEN Append(hist, c) ELSE <<hist[2], c>>

\* ------------------------------------------------------------ worker.fetch_xml
\* what client.get / raise_for_status do inside the try block of fetch_xml: the response
\* arrives, or one of the exceptions named by the except clauses is raised ("other": an
\* exception of none of the three httpx classes)
FetchOutcomes == {"ok", "timeout", "http_status", "request_error", "other"}

XmlBytes == "bytes"

\* a fetch_xml call: not made, awaiting the response, or finished (returned a value or
\* raised)
NotCalled == [stage |-> "idle",      outcome |-> NoneStr, raised |-> FALSE, value |-> NoneStr]
InFlight  == [stage |-> "in_flight", outcome |-> NoneStr, raised |-> FALSE, value |-> NoneStr]

\* (variant: without the last except clause)
FetchXml_noCatchAll(outcome) ==
    CASE outcome = "ok"            -> [raised |-> FALSE, value |-> XmlBytes]
      [] outcome = "timeout"       -> [raised |-> FALSE, value |-> NoneStr]
      [] outcome = "http_status"   -> [raised |-> FALSE, value |-> NoneStr]
      [] outcome = "request_error" -> [raised |-> FALSE, value |-> NoneStr]
      [] OTHER                     -> [raised |-> TRUE,  value |-> NoneStr]

\* fetch_xml(url): the try block returns response.content; each except clause returns
\* None
FetchXml(outcome) ==
    CASE outcome = "ok"            -> [raised |-> FALSE, value |-> XmlBytes]
      [] outcome = "timeout"       -> [raised |-> FALSE, value |-> NoneStr]
      [] outcome = "http_status"   -> [raised |-> FALSE, value |-> NoneStr]
      [] outcome = "request_error" -> [raised |-> FALSE, value |-> NoneStr]
      [] OTHER                     -> [raised |-> FALSE, value |-> NoneStr]

\* ------------------------------------------------ worker.fetch_and_parse_source
Pending == [kind |-> "pending", fetched |-> FALSE, beacons |-> <<>>, message |-> NoneStr]

\* "for beacon in beacons: beacon.source = source.value"
WithSource(feed, source) ==
    [i \in DOMAIN feed |->
        [external_id |-> feed[i].external_id, payload |-> feed[i].payload,
         detail |-> feed[i].detail, source |-> source]]

\* fetch_xml returned None (timeout, HTTP status, transport or any other error)
FetchFailed == [kind |-> "list", fetched |-> FALSE, beacons |-> <<>>, message |-> NoneStr]

\* fetch_xml returned bytes and the parser returned feed
Parsed(feed, source) ==
    [kind |-> "list", fetched |-> TRUE, beacons |-> WithSource(feed, source),
     message |-> NoneStr]

\* fetch_xml returned bytes and the parser raised (float() of a coordinate text that is
\* no number, parser.py:183 and 291); gather(return_exceptions=True) hands it over
ParserRaised ==
    [kind |-> "exception", fetched |-> TRUE, beacons |-> <<>>, message |-> "ValueError"]

TaskResults(source) ==
    {FetchFailed, ParserRaised} \cup {Parsed(f, source) : f \in CycleFeeds}

\* an exception raised by fetch_xml would leave fetch_and_parse_source
FetchRaised(outcome) ==
    [kind |-> "exception", fetched |-> FALSE, beacons |-> <<>>, message |-> outcome]

\* what fetch_and_parse_source does with what fetch_xml handed back: [] for None,
\* otherwise the parser is applied
AfterFetch(source, x) ==
    IF x.raised THEN {FetchRaised(x.outcome)}
    ELSE IF x.value = NoneStr THEN {FetchFailed}
    ELSE TaskResults(source) \ {FetchFailed}

\* ------------------------------------------------------- worker.run_sync_task
\* the SyncLog of a source whose task raised, worker.py:240-246
FailedLog(sync_log, result, now) ==
    [sync_log EXCEPT !.success = FALSE,
                     !.error_message = result.message,
                     !.sync_completed_at = now]

\* (variant: the updated count is written to the created column as well)
MetricsLog_mixed(sync_log, metrics, now) ==
    [sync_log EXCEPT !.beacons_in_feed = metrics.in_feed,
                     !.beacons_created = metrics.updated,
                     !.beacons_updated = metrics.updated,
                     !.beacons_deactivated = metrics.deactivated,
                     !.sync_completed_at = now]

\* the SyncLog of a reconciled source, worker.py:250-255
MetricsLog(sync_log, metrics, now) ==
    [sync_log EXCEPT !.beacons_in_feed = metrics.in_feed,
                     !.beacons_created = metrics.created,
                     !.beacons_updated = metrics.updated,
                     !.beacons_deactivated = metrics.deactivated,
                     !.sync_completed_at = now]

\* "if result:" a list with at least one record
Truthy_list(result) == result.kind = "list"

\* "if result:": a list is true when it is not empty
Truthy(result) == result.beacons # <<>>

\* one iteration of "for source, result in zip(DataSource, results)".  cs.rows and
\* cs.logs are committed; cs.pending are the SyncLog rows added to the session and not
\* yet committed.  session.commit() inside sync_beacons_to_db commits them with the
\* beacons; an exception leaving sync_beacons_to_db leaves the "with Session" block, which
\* closes the session and drops them.
ProcessResult(cs, source, result, existing_map, now, cyc) ==
    LET sync_log == SyncLog(source, now, cyc)
    IN  IF cs.raised
        THEN cs
        ELSE IF result.kind = "exception"
        THEN [cs EXCEPT !.pending = Append(@, FailedLog(sync_log, result, now))]
        ELSE IF Truthy(result)
        THEN LET r == SyncBeaconsToDb(cs.rows, result.beacons, source, existing_map, now)
                 c == CallRecord(result.beacons, cs.rows, r, cyc)
             IN  IF r.raised
                 THEN [cs EXCEPT !.raised = TRUE,
                                 !.pending = <<>>,
                                 !.calls[source] = Remember(@, c)]
                 ELSE [cs EXCEPT !.rows = r.rows,
                                 !.logs = @ \o cs.pending,
                                 !.pending = <<MetricsLog(sync_log, r.metrics, now)>>,
                                 !.calls[source] = Remember(@, c)]
        ELSE cs

\* "tasks = [fetch_and_parse_source(DataSource.NACIONAL), ...]", worker.py:223-227
Tasks == <<"nacional", "pais_vasco", "cataluna">>

Gather_asCompleted(res, order) == [i \in DOMAIN order |-> res[order[i]]]

\* asyncio.gather(*tasks, return_exceptions=True): the list of what the tasks produced,
\* in the order of the tasks, whatever the order they finished in
Gather(res, order) == [i \in DOMAIN Tasks |-> res[Tasks[i]]]

\* "for source, result in zip(DataSource, results)": res is the list gather returned
RECURSIVE ProcessResults(_, _, _, _, _, _)
ProcessResults(cs, i, res, emaps, now, cyc) ==
    IF i > Len(DataSource) \/ i > Len(res)
    THEN cs
    ELSE ProcessResults(
            ProcessResult(cs, DataSource[i], res[i], emaps[DataSource[i]], now + i, cyc),
            i + 1, res, emaps, now, cyc)

\* the final session.commit() of run_sync_task, worker.py:257
FinalCommit(cs) ==
    IF cs.raised THEN cs ELSE [cs EXCEPT !.logs = @ \o cs.pending, !.pending = <<>>]

\* main.lifespan starts run_sync_task twice over: as the scheduler's interval job and as
\* a task of its own at start-up; nothing keeps the two from overlapping
Invocations == {"startup", "scheduled"}

CycleOf(c) == IF c = "startup" THEN 1 ELSE 2

Nobody == "nobody"

\* the feeds delivered to overlapping invocations
OverlapFeeds ==
    { <<ParsedBeacon("ext-1", "p1", TRUE)>>,
      <<ParsedBeacon("ext-2", "p1", TRUE)>>,
      <<ParsedBeacon("ext-1", "p1", FALSE)>> }

OverlapResults(source) == {FetchFailed} \cup {Parsed(f, source) : f \in OverlapFeeds}

\* an invocation stands at: "new" (not started), "gather" (awaiting gather), "session"
\* (inside the "with Session" block, before iteration i of its loop), "returned" or
\* "raised"
NotInvoked ==
    [pc |-> "new", results |-> [s \in Sources |-> Pending], i |-> 1, pending |-> <<>>]

\* (variant: run_sync_task goes on as soon as one task has finished)
Gathered_first == \E s \in Sources : results[s].kind # "pending"

\* "results = await asyncio.gather(*tasks, return_exceptions=True)": run_sync_task goes
\* on when every task has finished
Gathered == \A s \in Sources : results[s].kind # "pending"

\* no function of parser.py / main.py has been called on its own
NoCall == [fn |-> "none", arg |-> NoneStr, out |-> NoneStr]

\* what a call hands back: a value, or an exception
Returns(v) == [raised |-> FALSE, value |-> v]
Raises(e) == [raised |-> TRUE, value |-> e]

\* ----------------------------------------------------------------- parser.py
\* The text of an element or the value of an attribute is a string; NoneStr stands for
\* an element or attribute that is not there (findtext / get return None).
NonEmpty(text) == text # NoneStr /\ text # ""

\* float(text): the texts that are numbers, with their value in tenths
FloatValue == ("40.4" :> 404 @@ "41.0" :> 410 @@ "2.5" :> 25)

Float(text) ==
    IF text \in DOMAIN FloatValue THEN Returns(FloatValue[text]) ELSE Raises("ValueError")

CoordTexts == {NoneStr, "", "north", "40.4", "41.0", "2.5"}

\* a "to" or "from" element with its pointCoordinates, or none
NoPoint == [present |-> FALSE, lat |-> NoneStr, lng |-> NoneStr]

PointCoordinates(lat, lng) == [present |-> TRUE, lat |-> lat, lng |-> lng]

\* (variant: without the entry for "both")
DIRECTION_MAP_short ==
    (  "bothWays"    :> "Ambos sentidos"
    @@ "positive"    :> "Creciente"
    @@ "negative"    :> "Decreciente"
    @@ "creciente"   :> "Creciente"
    @@ "decreciente" :> "Decreciente" )

\* parser.DIRECTION_MAP
DIRECTION_MAP ==
    (  "bothWays"    :> "Ambos sentidos"
    @@ "both"        :> "Ambos sentidos"
    @@ "positive"    :> "Creciente"
    @@ "negative"    :> "Decreciente"
    @@ "creciente"   :> "Creciente"
    @@ "decreciente" :> "Decreciente" )

\* DIRECTION_MAP.get(dir_val, dir_val)
MapDirection(dir_val) ==
    IF dir_val \in DOMAIN DIRECTION_MAP THEN DIRECTION_MAP[dir_val] ELSE dir_val

DirectionTokens ==
    {NoneStr, "", "bothWays", "both", "positive", "negative", "creciente", "decreciente",
     "Creciente", "BOTH", "northBound"}

\* record.get("id", situation_id) with situation_id = situation.get("id", "")
RecordId(rec_id, sit_id) ==
    IF rec_id # NoneStr THEN rec_id
    ELSE IF sit_id # NoneStr THEN sit_id
    ELSE ""

\* one block "point = record.find(...); if point is not None: ... if lat_text and
\* lng_text: lat = float(lat_text); lng = float(lng_text)", on the coordinates read
\* so far
ReadPoint(point, st) ==
    IF point.present /\ NonEmpty(point.lat) /\ NonEmpty(point.lng)
    THEN IF Float(point.lat).raised \/ Float(point.lng).raised
         THEN [raised |-> TRUE, lat |-> NULL, lng |-> NULL]
         ELSE [raised |-> FALSE, lat |-> Float(point.lat).value,
               lng |-> Float(point.lng).value]
    ELSE st

\* (variant: the "from" point is read first)
Coordinates_fromFirst(to, from) ==
    LET first == ReadPoint(from, [raised |-> FALSE, lat |-> NULL, lng |-> NULL])
    IN  IF first.raised \/ first.lat # NULL THEN first ELSE ReadPoint(to, first)

\* the "to" point, then the "from" point "if lat is None"
Coordinates(to, from) ==
    LET first == ReadPoint(to, [raised |-> FALSE, lat |-> NULL, lng |-> NULL])
    IN  IF first.raised \/ first.lat # NULL THEN first ELSE ReadPoint(from, first)

\* a sit:situationRecord of a v3.6 document, with the id of its sit:situation
SituationRecordV36(sit_id, rec_id, cause_type, to, from, dir_val) ==
    [sit_id |-> sit_id, rec_id |-> rec_id, cause_type |-> cause_type, to |-> to,
     from |-> from, dir_val |-> dir_val]

\* the body of "for record in situation.findall(...)" of parse_datex_v36, on
\* st = [raised, beacons]
ParseRecordV36(st, r) ==
    IF st.raised \/ ~NonEmpty(r.cause_type)
    THEN st
    ELSE LET c == Coordinates(r.to, r.from)
         IN  IF c.raised
             THEN [st EXCEPT !.raised = TRUE]
             ELSE IF c.lat # NULL /\ c.lng # NULL
             THEN [st EXCEPT !.beacons = Append(@,
                      [external_id   |-> RecordId(r.rec_id, r.sit_id),
                       lat           |-> c.lat,
                       lng           |-> c.lng,
                       incident_type |-> r.cause_type,
                       road_name     |-> NoneStr,
                       direction     |-> MapDirection(r.dir_val)])]
             ELSE st

RECURSIVE ParseRecordsV36(_, _)
ParseRecordsV36(st, records) ==
    IF records = <<>>
    THEN st
    ELSE ParseRecordsV36(ParseRecordV36(st, Head(records)), Tail(records))

\* a document: bytes that are well-formed XML with the records they hold, or not
Document(records) == [wellformed |-> TRUE, records |-> records]

Malformed == [wellformed |-> FALSE, records |-> <<>>]

\* parse_datex_v36(xml_content)
ParseDatexV36(doc) ==
    IF ~doc.wellformed
    THEN Returns(<<>>)
    ELSE LET st == ParseRecordsV36([raised |-> FALSE, beacons |-> <<>>], doc.records)
         IN  IF st.raised THEN Raises("ValueError") ELSE Returns(st.beacons)

Points == {NoPoint} \cup {PointCoordinates(a, b) : a, b \in CoordTexts}

\* the records the v3.6 parser is applied to: every pair of points, and every
\* combination of ids, cause type and direction
RecordsV36 ==
    {SituationRecordV36("sit-1", "rec-1", "vehicleObstruction", to, from, "both") :
        to, from \in Points}
    \cup {SituationRecordV36(sit_id, rec_id, cause_type,
                             PointCoordinates("40.4", "2.5"), NoPoint, dir_val) :
            sit_id \in {NoneStr, "sit-1"}, rec_id \in {NoneStr, "", "rec-1"},
            cause_type \in {NoneStr, "", "vehicleObstruction"},
            dir_val \in DirectionTokens}

\* the records that come before the last one in a document of several
LeadingRecordsV36 ==
    { SituationRecordV36("sit-0", "rec-0", "roadMaintenance",
                         PointCoordinates("41.0", "2.5"), NoPoint, NoneStr),
      SituationRecordV36("sit-0", "rec-0", "roadMaintenance", NoPoint, NoPoint, NoneStr) }

DocumentsV36 ==
    {Malformed, Document(<<>>)}
        \cup {Document(pre \o <<r>>) :
                pre \in SeqsUpTo(LeadingRecordsV36, MaxRecords - 1), r \in RecordsV36}

\* ------------------------------------------------- parser.classify_road_type
\* A road name is None or a string, written as the sequence of its characters.
NoName == [is_none |-> TRUE, chars |-> <<>>]

Name(chars) == [is_none |-> FALSE, chars |-> chars]

\* the characters road names are made of here: upper-case letters, a lower-case
\* letter, the hyphen, a digit and the blank
Chars == {"A", "P", "N", "B", "a", "-", "6", " "}

UpperOf == ("a" :> "A")

\* str.upper(), character by character
Upper(chars) ==
    [i \in DOMAIN chars |-> IF chars[i] \in DOMAIN UpperOf THEN UpperOf[chars[i]]
                            ELSE chars[i]]

IsAlpha(ch) == ch \in {"A", "P", "N", "B", "a"}

IsDigit(ch) == ch \in {"6"}

\* the class [A-Z] under re.IGNORECASE
IsAZ(ch) == ch \in {"A", "P", "N", "B", "a"}

\* str.strip(): without the leading and the trailing blanks
RECURSIVE LStrip(_)
LStrip(chars) ==
    IF chars # <<>> /\ Head(chars) = " " THEN LStrip(Tail(chars)) ELSE chars

RECURSIVE RStrip(_)
RStrip(chars) ==
    IF chars # <<>> /\ chars[Len(chars)] = " "
    THEN RStrip(SubSeq(chars, 1, Len(chars) - 1))
    ELSE chars

Strip(chars) == RStrip(LStrip(chars))

\* the character at position i, "" past the end
At(chars, i) == IF i \in DOMAIN chars THEN chars[i] ELSE ""

\* a literal letter of a pattern under re.IGNORECASE
Is(ch, letter) == ch # "" /\ Upper(<<ch>>)[1] = letter

\* "-?\d" matched at position i
HyphenDigit(chars, i) ==
    \/ IsDigit(At(chars, i))
    \/ At(chars, i) = "-" /\ IsDigit(At(chars, i + 1))

\* pattern.match(road_name) for the four patterns of ROAD_PATTERNS, by the road type
\* they stand for: ^A[P]?-?\d, ^N-?\d, ^[A-Z]{2}-?\d, ^[A-Z]-?\d
Match(road_type, chars) ==
    CASE road_type = "autopista" ->
            /\ Is(At(chars, 1), "A")
            /\ \/ HyphenDigit(chars, 2)
               \/ Is(At(chars, 2), "P") /\ HyphenDigit(chars, 3)
      [] road_type = "nacional" ->
            Is(At(chars, 1), "N") /\ HyphenDigit(chars, 2)
      [] road_type = "autonomica" ->
            IsAZ(At(chars, 1)) /\ IsAZ(At(chars, 2)) /\ HyphenDigit(chars, 3)
      [] road_type = "provincial" ->
            IsAZ(At(chars, 1)) /\ HyphenDigit(chars, 2)

\* (variant: the two-letter rule comes first)
ROAD_PATTERNS_reordered == <<"autonomica", "autopista", "nacional", "provincial">>

\* parser.ROAD_PATTERNS, in list order
ROAD_PATTERNS == <<"autopista", "nacional", "autonomica", "provincial">>

\* "for pattern, road_type in ROAD_PATTERNS: if pattern.match(road_name): return
\* road_type", from position i of the list; NoneStr when the loop ends
RECURSIVE FirstMatch(_, _)
FirstMatch(i, chars) ==
    IF i > Len(ROAD_PATTERNS) THEN NoneStr
    ELSE IF Match(ROAD_PATTERNS[i], chars) THEN ROAD_PATTERNS[i]
    ELSE FirstMatch(i + 1, chars)

\* classify_road_type(road_name)
ClassifyRoadType(road_name) ==
    IF road_name.is_none \/ road_name.chars = <<>>
    THEN NoneStr
    ELSE LET chars == Upper(Strip(road_name.chars))
             found == FirstMatch(1, chars)
         IN  IF found # NoneStr THEN found
             ELSE IF chars # <<>> /\ \E i \in DOMAIN chars : IsAlpha(chars[i]) THEN "local"
             ELSE NoneStr

RoadNames == {NoName} \cup {Name(chars) : chars \in SeqsUpTo(Chars, MaxNameLen)}

\* a "name" element of a v1.0 record: its tpegDescriptorType and its descriptor/value
NameElement(desc_type, value) == [desc_type |-> desc_type, value |-> value]

\* "for name_elem in record.findall('.//name'): if desc_type == 'linkName': road_name =
\* name_elem.findtext('descriptor/value')", on the road_name assigned so far
RECURSIVE LinkName(_, _)
LinkName(road_name, names) ==
    IF names = <<>>
    THEN road_name
    ELSE LinkName(IF Head(names).desc_type = "linkName" THEN Head(names).value
                  ELSE road_name,
                  Tail(names))

\* parser.py:303-317: the linkName descriptor, "if not road_name" the roadName element,
\* "if not road_name" the roadNumber element
RoadNameV10(names, road_name_value, road_number) ==
    LET link == LinkName(NoneStr, names)
        second == IF NonEmpty(link) THEN link ELSE road_name_value
    IN  IF NonEmpty(second) THEN second ELSE road_number

\* parser.py:277-283: tpegDirection, and directionRelative "if dir_rel and not direction"
DirectionV10(dir_val, dir_rel) ==
    LET direction == IF NonEmpty(dir_val) THEN MapDirection(dir_val) ELSE NoneStr
    IN  IF NonEmpty(dir_rel) /\ ~NonEmpty(direction) THEN MapDirection(dir_rel)
        ELSE direction

\* An xsi:type value is a sequence of tokens, the text being their concatenation; <<>>
\* is "", which record.get("type", "") also gives when the attribute is absent.
RecordTypes == SeqsUpTo({"_0:", "Works", "Accident", "Maintenance"}, MaxTypeLen)

\* str.replace(old, new): every occurrence of the token old, wherever it stands
RECURSIVE Replace(_, _, _)
Replace(chars, old, new) ==
    IF chars = <<>>
    THEN <<>>
    ELSE (IF Head(chars) = old THEN new ELSE <<Head(chars)>>)
             \o Replace(Tail(chars), old, new)

\* record_type.replace("_0:", "").replace("Works", "roadMaintenance"), and
\* "if not incident_type: incident_type = 'unknown'"
IncidentTypeV10 ==
    [record_type \in RecordTypes |->
        LET incident_type ==
                Replace(Replace(record_type, "_0:", <<>>), "Works", <<"roadMaintenance">>)
        IN  IF incident_type = <<>> THEN <<"unknown">> ELSE incident_type]

\* a situationRecord of a v1.0 document, with the id of its situation
SituationRecordV10(sit_id, rec_id, record_type, to, from, names, road_name_value, road_number, dir_val, dir_rel) ==
    [sit_id |-> sit_id, rec_id |-> rec_id, record_type |-> record_type, to |-> to,
     from |-> from, names |-> names, road_name_value |-> road_name_value,
     road_number |-> road_number, dir_val |-> dir_val, dir_rel |-> dir_rel]

\* the body of "for record in situation.findall(...)" of parse_datex_v10, on
\* st = [raised, beacons]
ParseRecordV10(st, r) ==
    IF st.raised
    THEN st
    ELSE LET c == Coordinates(r.to, r.from)
         IN  IF c.raised
             THEN [st EXCEPT !.raised = TRUE]
             ELSE IF c.lat # NULL /\ c.lng # NULL
             THEN [st EXCEPT !.beacons = Append(@,
                      [external_id   |-> RecordId(r.rec_id, r.sit_id),
                       lat           |-> c.lat,
                       lng           |-> c.lng,
                       incident_type |-> IncidentTypeV10[r.record_type],
                       road_name     |-> RoadNameV10(r.names, r.road_name_value,
                                                     r.road_number),
                       direction     |-> DirectionV10(r.dir_val, r.dir_rel)])]
             ELSE st

RECURSIVE ParseRecordsV10(_, _)
ParseRecordsV10(st, records) ==
    IF records = <<>>
    THEN st
    ELSE ParseRecordsV10(ParseRecordV10(st, Head(records)), Tail(records))

\* parse_datex_v10(xml_content)
ParseDatexV10(doc) ==
    IF ~doc.wellformed
    THEN Returns(<<>>)
    ELSE LET st == ParseRecordsV10([raised |-> FALSE, beacons |-> <<>>], doc.records)
         IN  IF st.raised THEN Raises("ValueError") ELSE Returns(st.beacons)

NameElements ==
    {NameElement(t, v) : t \in {"linkName", "townName"}, v \in {NoneStr, "", "A-1", "N-340"}}

\* the records the v1.0 parser is applied to: every pair of points; every type; every
\* combination of ids and directions; every combination of the places a road name is read
\* from
RecordsV10 ==
    {SituationRecordV10("sit-1", "rec-1", <<"_0:", "Accident">>, to, from, <<>>, NoneStr, NoneStr,
                        "both", NoneStr) : to, from \in Points}
    \cup {SituationRecordV10("sit-1", "rec-1", record_type,
                             PointCoordinates("40.4", "2.5"), NoPoint, <<>>, NoneStr,
                             NoneStr, NoneStr, NoneStr) : record_type \in RecordTypes}
    \cup {SituationRecordV10(sit_id, rec_id, <<"_0:", "Accident">>,
                             PointCoordinates("40.4", "2.5"), NoPoint, <<>>, NoneStr,
                             NoneStr, dir_val, dir_rel) :
            sit_id \in {NoneStr, "sit-1"}, rec_id \in {NoneStr, "", "rec-1"},
            dir_val \in DirectionTokens, dir_rel \in {NoneStr, "positive", "northBound"}}
    \cup {SituationRecordV10("sit-1", "rec-1", <<"_0:", "Accident">>,
                             PointCoordinates("40.4", "2.5"), NoPoint, names,
                             road_name_value, road_number, NoneStr, NoneStr) :
            names \in SeqsUpTo(NameElements, MaxNames),
            road_name_value \in {NoneStr, "", "BI-20"},
            road_number \in {NoneStr, "C-12"}}

LeadingRecordsV10 ==
    { SituationRecordV10("sit-0", "rec-0", <<"_0:", "Accident">>, PointCoordinates("41.0", "2.5"),
                         NoPoint, <<>>, NoneStr, NoneStr, NoneStr, NoneStr),
      SituationRecordV10("sit-0", "rec-0", <<"_0:", "Accident">>, NoPoint, NoPoint, <<>>, NoneStr,
                         NoneStr, NoneStr, NoneStr) }

DocumentsV10 ==
    {Malformed, Document(<<>>)}
        \cup {Document(pre \o <<r>>) :
                pre \in SeqsUpTo(LeadingRecordsV10, MaxRecords - 1), r \in RecordsV10}

\* ------------------------------------------------------- parser.parse_datetime
\* A time string is a sequence of tokens, the text being their concatenation; None is
\* apart.  The tokens: a date-time "%Y-%m-%dT%H:%M:%S" accepts, one of the same shape
\* with month 13, ".", two runs of digits, "+", and two timezone suffixes.
TimeString(chars) == [is_none |-> FALSE, chars |-> chars]

NoTimeString == [is_none |-> TRUE, chars |-> <<>>]

TimeTokens ==
    {"2024-01-15T10:30:00", "2024-13-15T10:30:00", ".", "5", "123456", "+", "01:00", "Z"}

\* the tokens strptime's "%Y-%m-%dT%H:%M:%S" converts
DateTimes == {"2024-01-15T10:30:00"}

\* the digit runs: how many digits, and their value
DigitCount == ("5" :> 1 @@ "123456" :> 6)

DigitValue == ("5" :> 5 @@ "123456" :> 123456)

\* datetime values (naive: tzinfo is None) and None
Datetime(text, microsecond) ==
    [is_none |-> FALSE, text |-> text, microsecond |-> microsecond, tzinfo |-> NoneStr]

NoDatetime == [is_none |-> TRUE, text |-> NoneStr, microsecond |-> 0, tzinfo |-> NoneStr]

RECURSIVE Pow10(_)
Pow10(n) == IF n = 0 THEN 1 ELSE 10 * Pow10(n - 1)

AllDigits(chars) == \A i \in DOMAIN chars : chars[i] \in DOMAIN DigitCount

RECURSIVE Digits(_)
Digits(chars) ==
    IF chars = <<>> THEN 0 ELSE DigitCount[Head(chars)] + Digits(Tail(chars))

RECURSIVE Number(_)
Number(chars) ==
    IF chars = <<>> THEN 0
    ELSE LET last == chars[Len(chars)]
         IN  Number(SubSeq(chars, 1, Len(chars) - 1)) * Pow10(DigitCount[last])
                 + DigitValue[last]

\* %f: one to six digits, read as a fraction of a second
Microsecond(chars) == Number(chars) * Pow10(6 - Digits(chars))

\* datetime.strptime(value, "%Y-%m-%dT%H:%M:%S")
Strptime(chars) ==
    IF Len(chars) = 1 /\ chars[1] \in DateTimes
    THEN Returns(Datetime(chars[1], 0))
    ELSE Raises("ValueError")

\* datetime.strptime(value, "%Y-%m-%dT%H:%M:%S.%f")
StrptimeFraction(chars) ==
    IF /\ Len(chars) >= 3
       /\ chars[1] \in DateTimes
       /\ chars[2] = "."
       /\ AllDigits(SubSeq(chars, 3, Len(chars)))
       /\ Digits(SubSeq(chars, 3, Len(chars))) <= 6
    THEN Returns(Datetime(chars[1], Microsecond(SubSeq(chars, 3, Len(chars)))))
    ELSE Raises("ValueError")

Contains(chars, ch) == \E i \in DOMAIN chars : chars[i] = ch

\* value.split(ch)[0]
BeforeFirst(chars, ch) ==
    IF Contains(chars, ch)
    THEN SubSeq(chars, 1, (CHOOSE i \in DOMAIN chars :
                              chars[i] = ch /\ \A j \in 1..(i - 1) : chars[j] # ch) - 1)
    ELSE chars

SplitPlus_keep(chars) == chars

\* "if '+' in value: value = value.split('+')[0]"
SplitPlus(chars) == IF Contains(chars, "+") THEN BeforeFirst(chars, "+") ELSE chars

\* parse_datetime(value)
ParseDatetime(value) ==
    IF value.is_none \/ value.chars = <<>>
    THEN Returns(NoDatetime)
    ELSE LET chars == SplitPlus(value.chars)
             r == IF Contains(chars, ".") THEN StrptimeFraction(chars) ELSE Strptime(chars)
         IN  IF r.raised THEN Returns(NoDatetime) ELSE r

TimeStrings == {NoTimeString} \cup {TimeString(c) : c \in SeqsUpTo(TimeTokens, MaxTokens)}

\* ----------------------------------------------------------------- geospatial
\* Times are in half seconds.
MIN_REQUEST_INTERVAL == 2

CACHE_TTL_SECONDS == 7200

\* _round_coords(lat, lng).  Coordinates are in units of 0.0001 degree, rounded
\* coordinates in units of 0.001 degree; round(x, 3) is the nearest multiple of 0.001
\* (the coordinates below are not halfway between two of them).
RoundCoords(lat, lng) == <<(lat + 5) \div 10, (lng + 5) \div 10>>

\* the coordinates the scores are asked for: two within one cell of the key grid, one
\* in the next cell
ScoreCoordinates == {<<404163, -37038>>, <<404161, -37041>>, <<404168, -37038>>}

\* a value of _isolation_cache; a key that is not in the dict has present = FALSE
Entry(score, timestamp) == [present |-> TRUE, score |-> score, timestamp |-> timestamp]

NoScore == [is_none |-> TRUE, score |-> 0]

Score(score) == [is_none |-> FALSE, score |-> score]

\* _get_cached_score(lat, lng)
GetCachedScore(cache, lat, lng, now) ==
    LET key == RoundCoords(lat, lng)
    IN  IF cache[key].present /\ now - cache[key].timestamp < CACHE_TTL_SECONDS
        THEN Score(cache[key].score)
        ELSE NoScore

\* _cache_score(lat, lng, score)
CacheScore(cache, lat, lng, score, now) ==
    [cache EXCEPT ![RoundCoords(lat, lng)] = Entry(score, now)]

\* what client.post ends with: a response with status 200 and a JSON body, a response
\* with another status, or an exception (timeout, transport error, body that is no
\* JSON: "badjson", raised by response.json() after _last_request_time was set).  A
\* body is {} ("empty"), an "out count" answer whose first element has tags with
\* total = n ("count"), one whose total is no number ("garbage"), or n elements without
\* tags ("list").
JsonBodies ==
    {[kind |-> "empty", n |-> 0], [kind |-> "garbage", n |-> 0]}
        \cup {[kind |-> "count", n |-> n] : n \in {0, 7}}
        \cup {[kind |-> "list", n |-> n] : n \in {4}}

PostOutcomes ==
    {[kind |-> k, body |-> [kind |-> "empty", n |-> 0]] :
        k \in {"status", "exception", "badjson"}}
        \cup {[kind |-> "ok", body |-> b] : b \in JsonBodies}

\* _count_from_response(data); int() of a total that is no number raises
CountFromResponse(data) ==
    IF data.kind = "empty" THEN Returns(0)
    ELSE IF data.kind = "garbage" THEN Raises("ValueError")
    ELSE Returns(data.n)

\* _score_from_amenity_count(count)
ScoreFromAmenityCount(count) ==
    IF count = 0 THEN 100
    ELSE IF count <= 2 THEN 85
    ELSE IF count <= 5 THEN 70
    ELSE IF count <= 10 THEN 50
    ELSE IF count <= 20 THEN 35
    ELSE IF count <= 50 THEN 20
    ELSE 10

\* "return 50.0": the fallback of calculate_real_isolation_score and the default of
\* calculate_isolation_score_sync
FallbackScore == 50

\* the coroutines that call calculate_real_isolation_score
Coroutines == {"first", "second"}

\* a coroutine is outside the function ("idle"), in asyncio.sleep until wake
\* ("sleeping"), or awaiting the response of its request ("posting")
Idle == [pc |-> "idle", wake |-> 0, lat |-> 0, lng |-> 0]

\* what a function of the module returned last: to which coroutine ("sync" for
\* calculate_isolation_score_sync), for which cache key, when, the value, and whether it
\* came from the cache, from a response, or is the 50.0 of a failed or skipped query
Returned(who, lat, lng, at, value, origin) ==
    [who |-> who, key |-> RoundCoords(lat, lng), at |-> at, value |-> value,
     origin |-> origin]

\* time.time() is far from 0, the initial _last_request_time
GeoInit ==
    [now               |-> MIN_REQUEST_INTERVAL,
     advances          |-> 0,
     last_request_time |-> 0,
     isolation_cache   |-> [k \in {RoundCoords(p[1], p[2]) : p \in ScoreCoordinates} |->
                               [present |-> FALSE, score |-> 0, timestamp |-> 0]],
     co                |-> [c \in Coroutines |-> Idle],
     starts            |-> [prev |-> NULL, last |-> NULL],
     out               |-> [who |-> "nobody", key |-> <<0, 0>>, at |-> 0, value |-> 0,
                            origin |-> "none"]]

\* ----------------------------------------------------------- main.get_beacons
\* "now - _beacons_cache["last_update"] < 15", in seconds
BeaconsCacheSeconds == 15

\* the attributes an instance of models.Beacon has (models.py:13-55)
BeaconColumns ==
    {"external_id", "source", "lat", "lng", "incident_type", "road_name", "road_type",
     "severity", "municipality", "province", "direction", "pk", "autonomous_community",
     "activation_time", "id", "is_active", "created_at", "updated_at", "deleted_at"}

\* the attributes of a beacon the loop body reads, main.py:249-281 (is_v16_beacon reads
\* detailed_cause_type, then incident_type)
FeatureReads ==
    {"activation_time", "lng", "lat", "id", "external_id", "source", "incident_type",
     "road_name", "road_type", "severity", "municipality", "province", "direction", "pk",
     "autonomous_community", "created_at", "updated_at", "source_identification",
     "detailed_cause_type"}

\* the feature built for one row, as far as the rows of this model go
Feature(beacon) ==
    [id |-> beacon.id, external_id |-> beacon.external_id, source |-> beacon.source]

\* _beacons_cache["data"]: None (falsy), or the dict built at main.py:288-299 (three
\* keys: truthy)
NoData == [present |-> FALSE, features |-> {}, total_count |-> 0]

FeatureCollection(features) ==
    [present |-> TRUE, features |-> features, total_count |-> Cardinality(features)]

\* main.py:236-299: the active rows are selected, a feature is built for each
BuildResponse(rows) ==
    LET active == {i \in DOMAIN rows : rows[i].is_active}
    IN  IF active # {} /\ FeatureReads \ BeaconColumns # {}
        THEN Raises("AttributeError")
        ELSE Returns(FeatureCollection({Feature(rows[i]) : i \in active}))

\* time.time() is far from 0, the initial last_update
ApiInit ==
    [now      |-> BeaconsCacheSeconds,
     advances |-> 0,
     requests |-> 0,
     cache    |-> [data |-> NoData, last_update |-> 0],
     out      |-> [raised |-> FALSE, value |-> NoData, cached |-> FALSE]]

\* --------------------------------------------------------- main.is_v16_beacon
\* The instance handed to is_v16_beacon: whether it has an attribute
\* detailed_cause_type at all, that attribute, and incident_type.  models.Beacon
\* (models.py:11-55) declares no detailed_cause_type, so an instance loaded from the
\* store has detail = FALSE; instances with the attribute are enumerated next to them.
BeaconArg(detail, detailed_cause_type, incident_type) ==
    [detail |-> detail, detailed_cause_type |-> detailed_cause_type,
     incident_type |-> incident_type]

\* str.lower() of the incident types below
LowerOf ==
    (  "vehicleObstruction" :> "vehicleobstruction"
    @@ "VEHICLEOBSTRUCTION" :> "vehicleobstruction"
    @@ "vehicleobstruction" :> "vehicleobstruction"
    @@ "vehicleStuck"       :> "vehiclestuck"
    @@ "roadMaintenance"    :> "roadmaintenance" )

\* is_v16_beacon(beacon)
IsV16Beacon(beacon) ==
    IF ~beacon.detail
    THEN Raises("AttributeError")
    ELSE IF beacon.detailed_cause_type = "vehicleStuck"
    THEN Returns(TRUE)
    ELSE IF NonEmpty(beacon.incident_type)
            /\ LowerOf[beacon.incident_type] = "vehicleobstruction"
    THEN Returns(TRUE)
    ELSE Returns(FALSE)

BeaconArgs ==
    {BeaconArg(FALSE, NoneStr, t) : t \in DOMAIN LowerOf \cup {NoneStr, ""}}
    \cup {BeaconArg(TRUE, c, t) :
            c \in {NoneStr, "vehicleStuck", "vehiclestuck", "roadMaintenance"},
            t \in DOMAIN LowerOf \cup {NoneStr, ""}}

\* ------------------------------------------------------------------- actions
Init ==
    /\ beacons = <<>>
    /\ sync_logs = <<>>
    /\ clock = 0
    /\ pc = "idle"
    /\ cycle = 0
    /\ results = [s \in Sources |-> Pending]
    /\ raised = FALSE
    /\ snapshot = <<>>
    /\ calls = [s \in Sources |-> <<>>]
    /\ fetch = [s \in Sources |-> NotCalled]
    /\ tasks = [c \in Invocations |-> NotInvoked]
    /\ running = Nobody
    /\ app = NoCall
    /\ done = <<>>
    /\ geo = GeoInit
    /\ api = ApiInit

\* run_sync_task is invoked (scheduler interval, or the start-up task): the three
\* fetch_and_parse_source tasks are created and gathered
StartCycle ==
    /\ pc = "idle"
    /\ cycle < MaxCycles
    /\ pc' = "fetching"
    /\ cycle' = cycle + 1
    /\ results' = [s \in Sources |-> Pending]
    /\ snapshot' = beacons
    /\ raised' = FALSE
    /\ UNCHANGED <<beacons, sync_logs, clock, calls, fetch, tasks, running, app, geo, api>>
    /\ done' = <<>>

\* one fetch_and_parse_source task completes
FetchAndParseSource(s) ==
    /\ pc = "fetching"
    /\ results[s].kind = "pending"
    /\ \E r \in TaskResults(s) : results' = [results EXCEPT ![s] = r]
    /\ UNCHANGED <<beacons, sync_logs, clock, pc, cycle, raised, snapshot, calls, fetch, tasks, running,
                   app, geo, api>>
    /\ done' = Append(done, s)

\* gather has returned: the "with Session(engine)" block of run_sync_task, which has
\* no await in it
ReconcileAndLog ==
    /\ pc = "fetching"
    /\ Gathered
    /\ \E emaps \in [Sources -> UNION {ExistingMaps(beacons, s) : s \in Sources}] :
          /\ \A s \in Sources : emaps[s] \in ExistingMaps(beacons, s)
          /\ LET cs == FinalCommit(ProcessResults(
                          [rows |-> beacons, logs |-> sync_logs, pending |-> <<>>,
                           raised |-> FALSE, calls |-> calls],
                          1, Gather(results, done), emaps, clock, cycle))
             IN  /\ beacons' = cs.rows
                 /\ sync_logs' = cs.logs
                 /\ raised' = cs.raised
                 /\ calls' = cs.calls
    /\ clock' = clock + Len(DataSource)
    /\ pc' = "idle"
    /\ UNCHANGED <<cycle, results, snapshot, fetch, tasks, running, app, done, geo, api>>

Next ==
    \/ StartCycle
    \/ \E s \in Sources : FetchAndParseSource(s)
    \/ ReconcileAndLog

Spec == Init /\ [][Next]_vars

\* ------------------------------------------------ the fetch phase, call by call
\* run_sync_task creates the three fetch_and_parse_source tasks and awaits gather; each
\* task awaits its fetch_xml
FetchStart ==
    /\ pc = "idle"
    /\ cycle < MaxCycles
    /\ pc' = "fetching"
    /\ cycle' = cycle + 1
    /\ results' = [s \in Sources |-> Pending]
    /\ fetch' = [s \in Sources |-> InFlight]
    /\ UNCHANGED <<beacons, sync_logs, clock, raised, snapshot, calls, tasks, running,
                   app, done, geo, api>>

\* the fetch_xml call of one task finishes and the task runs to its end (there is no
\* await after worker.py:97)
FetchXmlReturns(s) ==
    /\ pc = "fetching"
    /\ fetch[s].stage = "in_flight"
    /\ \E outcome \in FetchOutcomes :
          LET x == [stage |-> "done", outcome |-> outcome,
                    raised |-> FetchXml(outcome).raised, value |-> FetchXml(outcome).value]
          IN  /\ fetch' = [fetch EXCEPT ![s] = x]
              /\ \E r \in AfterFetch(s, x) : results' = [results EXCEPT ![s] = r]
    /\ UNCHANGED <<beacons, sync_logs, clock, pc, cycle, raised, snapshot, calls, tasks, running,
                   app, done, geo, api>>

\* every task has finished: gather hands the list of results to run_sync_task
GatherReturns ==
    /\ pc = "fetching"
    /\ Gathered
    /\ pc' = "idle"
    /\ UNCHANGED <<beacons, sync_logs, clock, cycle, results, raised, snapshot, calls, fetch, tasks, running,
                   app, done, geo, api>>

NextFetch ==
    \/ FetchStart
    \/ \E s \in Sources : FetchXmlReturns(s)
    \/ GatherReturns

SpecFetch == Init /\ [][NextFetch]_vars

\* ---------------------------------- two invocations of run_sync_task on one event loop
\* (variant: the event loop is given back after every source, as with an awaited
\* session)
Suspends_inSession(position) == TRUE

\* the positions at which run_sync_task gives the event loop back: its one await,
\* worker.py:229, and its end; lines 232-257 hold no await
Suspends(position) == position \in {"gather", "returned", "raised"}

\* the event loop runs an invocation that is ready when it executes no other
CanRun(c) == running \in {c, Nobody}

Yield(c, position) == IF Suspends(position) THEN Nobody ELSE c

\* run_sync_task is called: it creates the three tasks and awaits gather.  lifespan
\* creates the start-up task at once (main.py:150); the interval job first fires one
\* interval after scheduler.start() (main.py:127-147), so the start-up invocation is the
\* one that starts earlier
Invoke(c) ==
    /\ tasks[c].pc = "new"
    /\ c = "scheduled" => tasks["startup"].pc # "new"
    /\ CanRun(c)
    /\ tasks' = [tasks EXCEPT ![c].pc = "gather"]
    /\ running' = Yield(c, "gather")
    /\ UNCHANGED <<beacons, sync_logs, clock, pc, cycle, results, raised, snapshot, calls,
                   fetch, app, done, geo, api>>

\* gather hands the three results over and the invocation opens its session
GatherResumes(c) ==
    /\ tasks[c].pc = "gather"
    /\ CanRun(c)
    /\ \E res \in [Sources -> UNION {OverlapResults(s) : s \in Sources}] :
          /\ \A s \in Sources : res[s] \in OverlapResults(s)
          /\ tasks' = [tasks EXCEPT ![c] = [pc |-> "session", results |-> res, i |-> 1,
                                           pending |-> <<>>]]
    /\ running' = Yield(c, "session")
    /\ UNCHANGED <<beacons, sync_logs, clock, pc, cycle, results, raised, snapshot, calls,
                   fetch, app, done, geo, api>>

\* one iteration of "for source, result in zip(DataSource, results)", the last one
\* followed by the final commit
SessionStep(c) ==
    /\ tasks[c].pc = "session"
    /\ CanRun(c)
    /\ LET i == tasks[c].i
           source == DataSource[i]
       IN  \E existing_map \in ExistingMaps(beacons, source) :
              LET cs == ProcessResult(
                           [rows |-> beacons, logs |-> sync_logs,
                            pending |-> tasks[c].pending, raised |-> FALSE,
                            calls |-> calls],
                           source, tasks[c].results[source], existing_map, clock + 1,
                           CycleOf(c))
                  last == i = Len(DataSource)
                  fin == IF last THEN FinalCommit(cs) ELSE cs
                  position == IF cs.raised THEN "raised"
                              ELSE IF last THEN "returned" ELSE "session"
              IN  /\ beacons' = fin.rows
                  /\ sync_logs' = fin.logs
                  /\ calls' = fin.calls
                  /\ tasks' = [tasks EXCEPT ![c].pc = position,
                                            ![c].i = i + 1,
                                            ![c].pending = fin.pending]
                  /\ running' = Yield(c, position)
    /\ clock' = clock + 1
    /\ UNCHANGED <<pc, cycle, results, raised, snapshot, fetch, app, done, geo, api>>

NextOverlap ==
    \E c \in Invocations :
        \/ Invoke(c)
        \/ GatherResumes(c)
        \/ SessionStep(c)

SpecOverlap == Init /\ [][NextOverlap]_vars

\* ------------------------------------ functions of parser.py and main.py on their own
\* a call with its argument and what it handed back
Call(fn, arg, out) ==
    /\ app' = [fn |-> fn, arg |-> arg, out |-> out]
    /\ UNCHANGED <<beacons, sync_logs, clock, pc, cycle, results, raised, snapshot, calls,
                   fetch, tasks, running, done, geo, api>>

\* (one call is followed per behaviour)
CallParseDatexV36 ==
    /\ app = NoCall
    /\ \E doc \in DocumentsV36 : Call("parse_datex_v36", doc, ParseDatexV36(doc))

CallParseDatexV10 ==
    /\ app = NoCall
    /\ \E doc \in DocumentsV10 : Call("parse_datex_v10", doc, ParseDatexV10(doc))

CallClassifyRoadType ==
    /\ app = NoCall
    /\ \E road_name \in RoadNames :
          Call("classify_road_type", road_name, Returns(ClassifyRoadType(road_name)))

CallIsV16Beacon ==
    /\ app = NoCall
    /\ \E beacon \in BeaconArgs : Call("is_v16_beacon", beacon, IsV16Beacon(beacon))

CallParseDatetime ==
    /\ app = NoCall
    /\ \E value \in TimeStrings : Call("parse_datetime", value, ParseDatetime(value))

NextCalls ==
    \/ CallClassifyRoadType
    \/ CallParseDatetime
    \/ CallIsV16Beacon
    \/ CallParseDatexV36
    \/ CallParseDatexV10

SpecCalls == Init /\ [][NextCalls]_vars

\* sync_beacons_to_db called on its own, with any list of records, in a session of its
\* own that is rolled back when the call raises
SyncCall(s, feed) ==
    /\ clock < MaxCalls
    /\ \E existing_map \in ExistingMaps(beacons, s) :
          LET r == SyncBeaconsToDb(beacons, feed, s, existing_map, clock + 1)
          IN  /\ beacons' = r.rows
              /\ raised' = r.raised
              /\ calls' = [calls EXCEPT ![s] = Remember(@, CallRecord(feed, beacons, r, 0))]
    /\ clock' = clock + 1
    /\ snapshot' = beacons
    /\ UNCHANGED <<sync_logs, pc, cycle, results, fetch, tasks, running, app, done, geo, api>>

NextSync == \E s \in Sources, feed \in SyncFeeds : SyncCall(s, feed)

SpecSync == Init /\ [][NextSync]_vars

\* sync_beacons_to_db called again and again on the store the calls before left, with
\* the feeds of CycleFeeds: long enough for a beacon to be created, deactivated and
\* met again in a feed
SyncRound(s, feed) ==
    /\ clock < MaxRounds
    /\ \E existing_map \in ExistingMaps(beacons, s) :
          LET r == SyncBeaconsToDb(beacons, feed, s, existing_map, clock + 1)
          IN  /\ beacons' = r.rows
              /\ raised' = r.raised
              /\ calls' = [calls EXCEPT ![s] = Remember(@, CallRecord(feed, beacons, r, 0))]
    /\ clock' = clock + 1
    /\ snapshot' = beacons
    /\ UNCHANGED <<sync_logs, pc, cycle, results, fetch, tasks, running, app, done, geo, api>>

NextRounds == \E s \in Sources, feed \in CycleFeeds : SyncRound(s, feed)

SpecRounds == Init /\ [][NextRounds]_vars

\* ------------------------------------------------------------ geospatial, actions
GeoStep(g) ==
    /\ geo' = g
    /\ UNCHANGED <<beacons, sync_logs, clock, pc, cycle, results, raised, snapshot, calls,
                   fetch, tasks, running, app, done, api>>

\* client.post is awaited: a request is sent now
Post(g, c, lat, lng) ==
    [g EXCEPT !.co[c] = [pc |-> "posting", wake |-> 0, lat |-> lat, lng |-> lng],
              !.starts = [prev |-> g.starts.last, last |-> g.now]]

\* _rate_limited_request up to its first await: asyncio.sleep when the last response
\* came less than MIN_REQUEST_INTERVAL ago, client.post otherwise
RateLimit(g, c, lat, lng) ==
    LET elapsed == g.now - g.last_request_time
    IN  IF elapsed < MIN_REQUEST_INTERVAL
        THEN [g EXCEPT !.co[c] = [pc |-> "sleeping",
                                  wake |-> g.now + (MIN_REQUEST_INTERVAL - elapsed),
                                  lat |-> lat, lng |-> lng]]
        ELSE Post(g, c, lat, lng)

\* calculate_real_isolation_score(lat, lng) is called by coroutine c, for one of the
\* given coordinates: the cached score is returned, or _rate_limited_request is entered
CalculateRealIsolationScore(c, coordinates) ==
    /\ geo.co[c].pc = "idle"
    /\ \E p \in coordinates :
          LET cached == GetCachedScore(geo.isolation_cache, p[1], p[2], geo.now)
          IN  IF ~cached.is_none
              THEN GeoStep([geo EXCEPT !.out = Returned(c, p[1], p[2], geo.now, cached.score,
                                                        "cache")])
              ELSE GeoStep(RateLimit(geo, c, p[1], p[2]))

\* asyncio.sleep is over: the request is sent
SleepReturns(c) ==
    /\ geo.co[c].pc = "sleeping"
    /\ geo.now >= geo.co[c].wake
    /\ GeoStep(Post(geo, c, geo.co[c].lat, geo.co[c].lng))

CacheComputed_always(g, lat, lng, score) ==
    [g EXCEPT !.isolation_cache = CacheScore(@, lat, lng, score.value, g.now)]

\* "if result is None: return 50.0" does not reach _cache_score; a computed score does
CacheComputed(g, lat, lng, score) ==
    IF score.origin = "response"
    THEN [g EXCEPT !.isolation_cache = CacheScore(@, lat, lng, score.value, g.now)]
    ELSE g

\* what calculate_real_isolation_score makes of what client.post ended with
ScoreOf(outcome) ==
    IF outcome.kind # "ok"
    THEN [value |-> FallbackScore, origin |-> "fallback"]
    ELSE LET count == CountFromResponse(outcome.body)
         IN  IF count.raised
             THEN [value |-> 0, origin |-> "raised"]
             ELSE [value |-> ScoreFromAmenityCount(count.value), origin |-> "response"]

\* client.post of coroutine c ends, in one of the given ways: _last_request_time is
\* set when a response came, and calculate_real_isolation_score returns (or raises, on
\* a total that is no number)
PostReturns(c, outcomes) ==
    /\ geo.co[c].pc = "posting"
    /\ \E outcome \in outcomes :
          LET lat == geo.co[c].lat
              lng == geo.co[c].lng
              score == ScoreOf(outcome)
              g == [geo EXCEPT !.last_request_time =
                                  IF outcome.kind = "exception" THEN @ ELSE geo.now,
                               !.co[c] = Idle,
                               !.out = Returned(c, lat, lng, geo.now, score.value,
                                                score.origin)]
          IN  GeoStep(CacheComputed(g, lat, lng, score))

\* calculate_isolation_score_sync(lat, lng)
CalculateIsolationScoreSync ==
    \E p \in ScoreCoordinates :
        LET cached == GetCachedScore(geo.isolation_cache, p[1], p[2], geo.now)
        IN  GeoStep([geo EXCEPT !.out =
                        IF cached.is_none
                        THEN Returned("sync", p[1], p[2], geo.now, FallbackScore, "default")
                        ELSE Returned("sync", p[1], p[2], geo.now, cached.score, "cache")])

\* time passes, by one of the given amounts
TimePasses(amounts) ==
    /\ geo.advances < MaxAdvances
    /\ \E d \in amounts : GeoStep([geo EXCEPT !.now = @ + d, !.advances = @ + 1])

\* _rate_limited_request called by two coroutines, for one place: every way a request
\* can end, time passing by half seconds
NextRate ==
    \/ \E c \in Coroutines :
          CalculateRealIsolationScore(c, {CHOOSE p \in ScoreCoordinates : TRUE})
    \/ \E c \in Coroutines : SleepReturns(c)
    \/ \E c \in Coroutines :
          PostReturns(c, {o \in PostOutcomes : o.body.kind = "empty"})
    \/ TimePasses({1})

SpecRate == Init /\ [][NextRate]_vars

\* the score cache used by one coroutine and by the synchronous wrapper: every place,
\* every way a request can end, time passing by half a second or by a half second less
\* than the cache's time to live
NextCache ==
    \/ CalculateRealIsolationScore("first", ScoreCoordinates)
    \/ SleepReturns("first")
    \/ PostReturns("first", PostOutcomes)
    \/ CalculateIsolationScoreSync
    \/ TimePasses({1, CACHE_TTL_SECONDS - 1})

SpecCache == Init /\ [][NextCache]_vars

\* ------------------------------------------------------ main.get_beacons
ApiStep(a) ==
    /\ api' = a
    /\ UNCHANGED <<beacons, sync_logs, clock, pc, cycle, results, raised, snapshot, calls,
                   fetch, tasks, running, app, done, geo>>

\* GET /api/v1/beacons: the handler has no await, it runs in one piece
GetBeacons ==
    /\ api.requests < MaxRequests
    /\ LET now == api.now
           a   == [api EXCEPT !.requests = @ + 1]
       IN  IF api.cache.data.present
              /\ now - api.cache.last_update < BeaconsCacheSeconds
           THEN ApiStep([a EXCEPT !.out = [raised |-> FALSE, value |-> api.cache.data,
                                           cached |-> TRUE]])
           ELSE LET result == BuildResponse(beacons)
                IN  IF result.raised
                    THEN ApiStep([a EXCEPT !.out = [raised |-> TRUE, value |-> NoData,
                                                    cached |-> FALSE]])
                    ELSE ApiStep([a EXCEPT
                                    !.cache = [data |-> result.value, last_update |-> now],
                                    !.out = [raised |-> FALSE, value |-> result.value,
                                             cached |-> FALSE]])

\* time.time() moves on
ApiTimePasses ==
    /\ api.advances < MaxAdvances
    /\ \E d \in {1, BeaconsCacheSeconds - 1} :
          ApiStep([api EXCEPT !.now = @ + d, !.advances = @ + 1])

\* requests to /api/v1/beacons, a source's feed being reconciled and committed between
\* two of them
NextApi ==
    \/ \E feed \in CycleFeeds : SyncRound("nacional", feed)
    \/ GetBeacons
    \/ ApiTimePasses

SpecApi == Init /\ [][NextApi]_vars

\* =================================================================== claims
Range(f) == {f[i] : i \in DOMAIN f}

\* the external_ids of the active rows of a source
ActiveIds(rows, source) == {rows[i].external_id : i \in ExistingBeacons(rows, source)}

LastCall(s) == calls[s][Len(calls[s])]

\* the last two calls for s both committed
TwoCommitted(s) ==
    /\ Len(calls[s]) = 2
    /\ ~calls[s][1].raised
    /\ ~calls[s][2].raised

\* C1: once sync_beacons_to_db(session, R, S) has committed, the external_ids of the
\* active beacons of S are exactly the external_ids occurring in R (whatever the rows
\* the call found, and until S is reconciled again).
C1_ActiveSetEqualsFeed ==
    \A s \in Sources :
        (Len(calls[s]) > 0 /\ ~LastCall(s).raised)
            => ActiveIds(beacons, s) = CurrentIds(LastCall(s).feed)

\* a committed call that found an active row to deactivate and had a record to create
C1_Witness ==
    \E s \in Sources :
        /\ Len(calls[s]) > 0
        /\ ~LastCall(s).raised
        /\ LET c == LastCall(s)
               was == ActiveIds(c.before, s)
               cur == CurrentIds(c.feed)
           IN  /\ was \ cur # {}
               /\ cur \ was # {}

CycleDone == pc = "idle" /\ cycle > 0

\* the committed SyncLog rows of a source written in a cycle
LogsFor(s, c) ==
    {i \in DOMAIN sync_logs : sync_logs[i].source = s /\ sync_logs[i].cycle = c}

\* sync_beacons_to_db was called for s in the last cycle and raised
SyncRaised(s) ==
    /\ Len(calls[s]) > 0
    /\ LastCall(s).raised
    /\ LastCall(s).cycle = cycle

C4_AbsentIsDeactivated ==
    (CycleDone /\ ~raised) =>
        \A s \in Sources :
            (results[s].kind = "list" /\ results[s].fetched) =>
                \A i \in DOMAIN snapshot :
                    ( /\ snapshot[i].source = s
                      /\ snapshot[i].is_active
                      /\ snapshot[i].external_id \notin CurrentIds(results[s].beacons) )
                        => ~beacons[i].is_active

\* C5: no step removes a beacon row: every id in the table before a step is in the table
\* after it.
C5_NoHardDelete ==
    [][\A b \in Range(beacons) : \E b2 \in Range(beacons') : b2.id = b.id]_vars

\* a later cycle has deactivated a row, and the row is still there
C5_Witness ==
    /\ CycleDone
    /\ \E i \in DOMAIN beacons :
          /\ ~beacons[i].is_active
          /\ i \in DOMAIN snapshot
          /\ snapshot[i].is_active

\* C7: when a cycle has returned, exactly one SyncLog row of that cycle is committed for
\* each of the three sources, whatever the source's outcome was.
C7_OneLogPerSourceAndCycle ==
    (CycleDone /\ ~raised) =>
        \A s \in Sources : Cardinality(LogsFor(s, cycle)) = 1

\* C8: when a cycle has returned, a source whose fetch or parse failed in it has a
\* SyncLog row of that cycle with success = false, an error message and null counts.
C8_FailureIsLogged ==
    (CycleDone /\ ~raised) =>
        \A s \in Sources :
            (results[s] = FetchFailed \/ results[s].kind = "exception") =>
                \E i \in LogsFor(s, cycle) :
                    /\ ~sync_logs[i].success
                    /\ sync_logs[i].error_message # NoneStr
                    /\ sync_logs[i].beacons_in_feed = NULL
                    /\ sync_logs[i].beacons_created = NULL
                    /\ sync_logs[i].beacons_updated = NULL
                    /\ sync_logs[i].beacons_deactivated = NULL

\* the two other sources fetched feeds with records, all carrying every attribute the
\* reconciliation reads
OthersSucceed(b) ==
    \A a \in Sources \ {b} :
        /\ results[a].kind = "list"
        /\ results[a].fetched
        /\ Truthy(results[a])
        /\ \A k \in DOMAIN results[a].beacons : results[a].beacons[k].detail

\* C9: if the fetch of source B fails in a cycle while the two other sources deliver
\* feeds with records, the cycle returns without raising, the two others are reconciled
\* and have a SyncLog row with success = true, and B has one with success = false.
C9_PartialFailureIsolation ==
    CycleDone =>
        \A b \in Sources :
            (results[b] = FetchFailed /\ OthersSucceed(b)) =>
                /\ ~raised
                /\ \A a \in Sources \ {b} :
                      /\ ActiveIds(beacons, a) = CurrentIds(results[a].beacons)
                      /\ \E i \in LogsFor(a, cycle) : sync_logs[i].success
                /\ \E i \in LogsFor(b, cycle) : ~sync_logs[i].success

\* C10: when sync_beacons_to_db raises for a source in a cycle, run_sync_task does not
\* raise, that source has a SyncLog row with success = false and the message, and every
\* other source that delivered records is reconciled and logged.
C10_PersistenceFailureContained ==
    CycleDone =>
        \A s \in Sources :
            SyncRaised(s) =>
                /\ ~raised
                /\ \E i \in LogsFor(s, cycle) :
                      ~sync_logs[i].success /\ sync_logs[i].error_message # NoneStr
                /\ \A o \in Sources \ {s} :
                      (results[o].kind = "list" /\ Truthy(results[o])) =>
                          /\ Len(calls[o]) > 0
                          /\ LastCall(o).cycle = cycle
                          /\ LogsFor(o, cycle) # {}

SyncCommitted(s) ==
    /\ Len(calls[s]) > 0
    /\ LastCall(s).cycle = cycle
    /\ ~LastCall(s).raised

C13_LogCarriesMetrics ==
    CycleDone =>
        \A s \in Sources :
            SyncCommitted(s) =>
                /\ ~raised => LogsFor(s, cycle) # {}
                /\ \A i \in LogsFor(s, cycle) :
                      /\ sync_logs[i].success
                      /\ sync_logs[i].sync_started_at # NULL
                      /\ sync_logs[i].sync_completed_at # NULL
                      /\ sync_logs[i].beacons_in_feed = LastCall(s).metrics.in_feed
                      /\ sync_logs[i].beacons_created = LastCall(s).metrics.created
                      /\ sync_logs[i].beacons_updated = LastCall(s).metrics.updated
                      /\ sync_logs[i].beacons_deactivated = LastCall(s).metrics.deactivated

\* a cycle whose reconciliation of a source created, updated and deactivated rows, with
\* its SyncLog row committed
C13_Witness ==
    /\ CycleDone
    /\ \E s \in Sources :
          /\ SyncCommitted(s)
          /\ LogsFor(s, cycle) # {}
          /\ LastCall(s).metrics.created > 0
          /\ LastCall(s).metrics.updated > 0

\* the last call of sync_beacons_to_db for s committed
Committed(s) == Len(calls[s]) > 0 /\ ~LastCall(s).raised

\* the positions in the feed of a call whose record matched a row that was active for
\* the source when the call began
Matched(c, s) ==
    {k \in DOMAIN c.feed : c.feed[k].external_id \in ActiveIds(c.before, s)}

\* the rows a call for s inserted
Inserted(c, s) == {i \in DOMAIN beacons \ DOMAIN c.before : beacons[i].source = s}

C15_DeletedAtIffInactive ==
    [][\A i \in DOMAIN beacons' :
          /\ (beacons'[i].deleted_at # NULL) <=> ~beacons'[i].is_active
          /\ (i \in DOMAIN beacons /\ beacons[i].is_active /\ ~beacons'[i].is_active)
                => (beacons[i].deleted_at = NULL /\ beacons'[i].deleted_at = clock')]_vars

\* a store with an inactive row next to an active one
C15_Witness ==
    \E i, j \in DOMAIN beacons :
        /\ ~beacons[i].is_active
        /\ beacons[i].deleted_at # NULL
        /\ beacons[j].is_active

C18_FetchFailuresCollected ==
    /\ \A s \in Sources :
          /\ fetch[s].stage = "done" =>
                /\ ~fetch[s].raised
                /\ fetch[s].outcome # "ok" =>
                      (fetch[s].value = NoneStr /\ results[s] = FetchFailed)
                /\ fetch[s].outcome = "ok" => results[s].fetched
          /\ (pc = "fetching" /\ fetch[s].stage = "in_flight") => ENABLED FetchXmlReturns(s)
    /\ (pc = "idle" /\ cycle > 0) => \A s \in Sources : fetch[s].stage = "done"

\* gather has returned; one fetch had timed out, one had met an exception of no httpx
\* class, and the third delivered a feed with records
C18_Witness ==
    /\ pc = "idle"
    /\ cycle > 0
    /\ \E a, b, c \in Sources :
          /\ fetch[a].outcome = "timeout"
          /\ fetch[b].outcome = "other"
          /\ fetch[c].outcome = "ok"
          /\ Truthy(results[c])

\* C19 as stated: the fetches are joined before parsing begins: no source's feed has
\* been parsed while the fetch of another source of the same cycle is in flight (a task
\* without a result is awaiting its fetch_xml: the task has no other await).
C19_JoinedBeforeParsing ==
    \A s, t \in Sources :
        (pc = "fetching" /\ results[s].fetched) => results[t].kind # "pending"

\* C19 amended: each feed is parsed inside the task of its source as soon as its fetch
\* completes; the three tasks are joined before reconciliation begins: no step writes
\* beacons or SyncLog rows, or calls sync_beacons_to_db, while a task of the cycle has
\* not finished.
C19_JoinedBeforeReconciling ==
    [][(beacons' # beacons \/ sync_logs' # sync_logs \/ calls' # calls)
          => \A s \in Sources : results[s].kind # "pending"]_vars

\* a finished cycle in which one fetch failed and another source was reconciled
C19_Witness ==
    /\ CycleDone
    /\ \E s, t \in Sources :
          /\ SyncCommitted(s)
          /\ results[t] = FetchFailed

\* C20: when two invocations of run_sync_task overlap, the reconcile-and-log block of
\* one is never interleaved with that of the other: at no time are both inside their
\* "with Session" block, so none reads the active rows while the other is midway
\* through modifying them.
C20_BlocksNotInterleaved ==
    \A c, d \in Invocations :
        c # d => ~(tasks[c].pc = "session" /\ tasks[d].pc = "session")

\* two overlapping invocations: one has committed rows and is midway through its
\* block, the other is awaiting its fetches
C20_Witness ==
    \E c, d \in Invocations :
        /\ tasks[c].pc = "session"
        /\ tasks[c].i > 1
        /\ tasks[d].pc = "gather"
        /\ beacons # <<>>

\* ------------------------------------------------------- claims C21 to C30
Parsers == {"parse_datex_v36", "parse_datex_v10"}

\* C21: no record with an empty external_id or without latitude or longitude is in the
\* list a parser returns (and so none reaches sync_beacons_to_db).
C21_IncompleteRecordsDiscarded ==
    (app.fn \in Parsers /\ ~app.out.raised) =>
        \A k \in DOMAIN app.out.value :
            /\ app.out.value[k].external_id \notin {"", NoneStr}
            /\ app.out.value[k].lat # NULL
            /\ app.out.value[k].lng # NULL

\* C22: parse_datex_v36 and parse_datex_v10 never raise, whatever the document.
C22_ParsersNeverRaise == app.fn \in Parsers => ~app.out.raised

\* a point that provides both latitude and longitude
Both(point) == point.present /\ NonEmpty(point.lat) /\ NonEmpty(point.lng)

LastRecord == app.arg.records[Len(app.arg.records)]

LastParsed == app.out.value[Len(app.out.value)]

\* C25: in dialect A the coordinates of a record are those of its "to" point when that
\* point provides both latitude and longitude, and otherwise those of its "from" point
\* (stated for the last record of a document the parser returned a list for).
C25_ToThenFrom ==
    ( /\ app.fn = "parse_datex_v36"
      /\ ~app.out.raised
      /\ app.arg.records # <<>>
      /\ NonEmpty(LastRecord.cause_type) ) =>
        /\ Both(LastRecord.to) =>
              /\ app.out.value # <<>>
              /\ LastParsed.lat = FloatValue[LastRecord.to.lat]
              /\ LastParsed.lng = FloatValue[LastRecord.to.lng]
        /\ (~Both(LastRecord.to) /\ Both(LastRecord.from)) =>
              /\ app.out.value # <<>>
              /\ LastParsed.lat = FloatValue[LastRecord.from.lat]
              /\ LastParsed.lng = FloatValue[LastRecord.from.lng]

\* a record whose "to" point lacks its longitude and whose "from" point, with other
\* coordinates, was used
C25_Witness ==
    /\ app.fn = "parse_datex_v36"
    /\ ~app.out.raised
    /\ app.arg.records # <<>>
    /\ NonEmpty(LastRecord.cause_type)
    /\ LastRecord.to.present
    /\ NonEmpty(LastRecord.to.lat)
    /\ ~NonEmpty(LastRecord.to.lng)
    /\ Both(LastRecord.from)
    /\ LastRecord.from.lat # LastRecord.to.lat
    /\ app.out.value # <<>>

\* the letters a road name begins with, upper-cased
RECURSIVE LeadingLetters(_)
LeadingLetters(chars) ==
    IF chars # <<>> /\ IsAlpha(Head(chars))
    THEN Upper(<<Head(chars)>>) \o LeadingLetters(Tail(chars))
    ELSE <<>>

\* the letters a name begins with are followed by a digit, a hyphen allowed in between
DigitFollows(chars) ==
    LET n == Len(LeadingLetters(chars))
    IN  \/ IsDigit(At(chars, n + 1))
        \/ At(chars, n + 1) = "-" /\ IsDigit(At(chars, n + 2))

\* the road type the rules of the claim give a name without surrounding blanks
RuleOf(chars) ==
    LET prefix == LeadingLetters(chars)
    IN  IF prefix # <<>> /\ DigitFollows(chars) /\ Len(prefix) <= 2
        THEN IF prefix \in {<<"A">>, <<"A", "P">>} THEN "autopista"
             ELSE IF prefix = <<"N">> THEN "nacional"
             ELSE IF Len(prefix) = 2 THEN "autonomica"
             ELSE "provincial"
        ELSE IF \E i \in DOMAIN chars : IsAlpha(chars[i]) THEN "local"
        ELSE NoneStr

LastRecordParsedV36 ==
    /\ app.fn = "parse_datex_v36"
    /\ ~app.out.raised
    /\ app.arg.records # <<>>
    /\ NonEmpty(LastRecord.cause_type)
    /\ Both(LastRecord.to) \/ Both(LastRecord.from)

\* C24 as stated: exactly bothWays and both become "Ambos sentidos", positive becomes
\* "Creciente" and negative "Decreciente"; every other token is passed through unchanged.
C24_FourTokensMapped ==
    LastRecordParsedV36 =>
        LastParsed.direction =
            CASE LastRecord.dir_val \in {"bothWays", "both"} -> "Ambos sentidos"
              [] LastRecord.dir_val = "positive" -> "Creciente"
              [] LastRecord.dir_val = "negative" -> "Decreciente"
              [] OTHER -> LastRecord.dir_val

\* C24 amended: bothWays and both become "Ambos sentidos", positive and creciente
\* become "Creciente", negative and decreciente become "Decreciente"; every other token,
\* and an absent one, is passed through unchanged.
C24_SixTokensMapped ==
    LastRecordParsedV36 =>
        LastParsed.direction =
            CASE LastRecord.dir_val \in {"bothWays", "both"} -> "Ambos sentidos"
              [] LastRecord.dir_val \in {"positive", "creciente"} -> "Creciente"
              [] LastRecord.dir_val \in {"negative", "decreciente"} -> "Decreciente"
              [] OTHER -> LastRecord.dir_val

\* a record whose direction token is the lower-case "creciente"
C24_Witness ==
    /\ LastRecordParsedV36
    /\ LastRecord.dir_val = "creciente"
    /\ LastParsed.direction = "Creciente"

\* C26: is_v16_beacon applied to a persisted beacon returns true exactly when its
\* detailed_cause_type is 'vehicleStuck' or its incident_type, lower-cased, is
\* 'vehicleobstruction' (false for a beacon with neither); the fields of the persisted
\* beacon suffice to compute it.
C26_V16FromPersistedFields ==
    app.fn = "is_v16_beacon" =>
        /\ ~app.out.raised
        /\ app.out.value =
              ( \/ app.arg.detail /\ app.arg.detailed_cause_type = "vehicleStuck"
                \/ app.arg.incident_type \in
                      {"vehicleObstruction", "VEHICLEOBSTRUCTION", "vehicleobstruction"} )

\* the two calls of sync_beacons_to_db remembered for s are those of two successive
\* cycles, the later one of the cycle that just ended: the first found no row of s and
\* was given ext-1 and ext-2, the second was given ext-1 alone, and neither raised
TwoCycles(s) ==
    /\ CycleDone
    /\ Len(calls[s]) = 2
    /\ calls[s][2].cycle = cycle
    /\ calls[s][1].cycle + 1 = cycle
    /\ ~calls[s][1].raised
    /\ ~calls[s][2].raised
    /\ \A i \in DOMAIN calls[s][1].before : calls[s][1].before[i].source # s
    /\ Len(calls[s][1].feed) = 2
    /\ calls[s][1].feed[1].external_id = "ext-1"
    /\ calls[s][1].feed[2].external_id = "ext-2"
    /\ Len(calls[s][2].feed) = 1
    /\ calls[s][2].feed[1].external_id = "ext-1"

\* the rows of s in a table
RowsOf(rows, s) == {i \in DOMAIN rows : rows[i].source = s}

\* the counts of a SyncLog row
LogCounts(log) ==
    <<log.beacons_created, log.beacons_updated, log.beacons_deactivated, log.success>>

Body(value) == BeforeFirst(value.chars, "+")

\* a date-time, or a date-time, a '.' and one to six digits
WellFormed(chars) ==
    \/ Len(chars) = 1 /\ chars[1] \in DateTimes
    \/ /\ Len(chars) >= 3
       /\ chars[1] \in DateTimes
       /\ chars[2] = "."
       /\ \A i \in 3..Len(chars) : chars[i] \in {"5", "123456"}
       /\ Digits(SubSeq(chars, 3, Len(chars))) \in 1..6

\* C28: parse_datetime never raises.  It returns a time exactly when the text up to
\* the first '+' is a date-time with or without fractional seconds; the time is the
\* one written there, with that fraction and without timezone, whatever follows the
\* '+'.  For None, the empty string and every other text it returns None.
C28_ParseDatetime ==
    app.fn = "parse_datetime" =>
        /\ ~app.out.raised
        /\ app.out.value.is_none <=> (app.arg.is_none \/ ~WellFormed(Body(app.arg)))
        /\ ~app.out.value.is_none =>
              /\ app.out.value.text = Body(app.arg)[1]
              /\ app.out.value.tzinfo = NoneStr
              /\ app.out.value.microsecond =
                    IF Len(Body(app.arg)) = 1 THEN 0
                    ELSE Microsecond(SubSeq(Body(app.arg), 3, Len(Body(app.arg))))

\* a time with fractional seconds and a '+' suffix was parsed
C28_Witness ==
    /\ app.fn = "parse_datetime"
    /\ app.arg.chars = <<"2024-01-15T10:30:00", ".", "5", "+", "01:00">>
    /\ app.out = Returns(Datetime("2024-01-15T10:30:00", 500000))

\* the values of the linkName descriptors of a record that are present and not empty
LinkNameValues(r) ==
    {r.names[i].value : i \in {j \in DOMAIN r.names :
                                  /\ r.names[j].desc_type = "linkName"
                                  /\ NonEmpty(r.names[j].value)}}

\* C29: in dialect B the road_name of a record is the value of a linkName descriptor
\* when the record has one that is not empty; otherwise the roadName element when that
\* is not empty; otherwise the roadNumber element (stated for the last record of a
\* document, when the parser returned it).
C29_RoadNamePriority ==
    ( /\ app.fn = "parse_datex_v10"
      /\ ~app.out.raised
      /\ app.arg.records # <<>>
      /\ Both(LastRecord.to) \/ Both(LastRecord.from) ) =>
        /\ app.out.value # <<>>
        /\ LinkNameValues(LastRecord) # {} =>
              LastParsed.road_name \in LinkNameValues(LastRecord)
        /\ (LinkNameValues(LastRecord) = {} /\ NonEmpty(LastRecord.road_name_value)) =>
              LastParsed.road_name = LastRecord.road_name_value
        /\ (LinkNameValues(LastRecord) = {} /\ ~NonEmpty(LastRecord.road_name_value)) =>
              LastParsed.road_name = LastRecord.road_number

\* the positions in the feed of a call whose record matched no row that was active for
\* the source when the call began
Unmatched(c, s) == DOMAIN c.feed \ Matched(c, s)

WithoutPrefix(record_type) == SelectSeq(record_type, LAMBDA ch : ch # "_0:")

\* C31: in dialect B the incident_type of a record is its type value without the '_0:'
\* literal, 'roadMaintenance' when that is the cause code 'Works', 'unknown' when it
\* is empty or absent, and otherwise that value unchanged (stated for the last record
\* of a document, when the parser returned it).
C31_IncidentTypeV10 ==
    ( /\ app.fn = "parse_datex_v10"
      /\ ~app.out.raised
      /\ app.arg.records # <<>>
      /\ Both(LastRecord.to) \/ Both(LastRecord.from) ) =>
        /\ app.out.value # <<>>
        /\ LastParsed.incident_type =
              LET t == WithoutPrefix(LastRecord.record_type)
              IN  IF t = <<>> THEN <<"unknown">>
                  ELSE IF t = <<"Works">> THEN <<"roadMaintenance">>
                  ELSE t

\* the rows of s are the same rows, with the same field values, in both tables
SameRowsOf(s, before, after) ==
    /\ RowsOf(after, s) = RowsOf(before, s)
    /\ \A i \in RowsOf(before, s) : after[i] = before[i]

\* C32: no step of a cycle in which the fetch of a source failed creates, modifies or
\* deactivates a beacon of that source: the failure is not reconciled as an empty feed.
C32_FetchFailureLeavesRows ==
    [][\A s \in Sources :
          (pc = "fetching" /\ results[s] = FetchFailed) => SameRowsOf(s, beacons, beacons')]_vars

\* a finished cycle in which the fetch of a source with an active beacon failed, the
\* beacon is still active, and another source was reconciled
C32_Witness ==
    /\ CycleDone
    /\ \E s, t \in Sources :
          /\ results[s] = FetchFailed
          /\ \E i \in RowsOf(snapshot, s) : snapshot[i].is_active /\ beacons[i].is_active
          /\ SyncCommitted(t)
          /\ beacons # snapshot

\* C33: a call of sync_beacons_to_db for a source leaves every row of every other
\* source as it was, also when another source has an active beacon with an external_id
\* of the feed, or with one the feed lacks.
C33_OtherSourcesUntouched ==
    [][\E s \in Sources :
          /\ \A t \in Sources \ {s} :
                /\ calls'[t] = calls[t]
                /\ SameRowsOf(t, beacons, beacons')]_vars

\* a committed call for a source inserted a row for an external_id of which another
\* source has an active beacon
C33_Witness ==
    \E s \in Sources, t \in Sources :
        /\ s # t
        /\ Committed(s)
        /\ \E i \in Inserted(LastCall(s), s), j \in RowsOf(LastCall(s).before, t) :
              /\ LastCall(s).before[j].is_active
              /\ LastCall(s).before[j].external_id = beacons[i].external_id
              /\ beacons[j] = LastCall(s).before[j]

\* the external_ids of which s has an inactive row and no active one
RetiredIds(rows, s) ==
    {rows[i].external_id : i \in {j \in RowsOf(rows, s) : ~rows[j].is_active}}
        \ ActiveIds(rows, s)

C35_ResultsPairedWithSource ==
    CycleDone =>
        \A s \in Sources :
            /\ (Len(calls[s]) > 0 /\ LastCall(s).cycle = cycle) =>
                  /\ LastCall(s).feed = results[s].beacons
                  /\ \A k \in DOMAIN LastCall(s).feed : LastCall(s).feed[k].source = s
            /\ \A t \in Sources \ {s} :
                  (results[s].beacons # <<>> /\ results[t].beacons = <<>>) =>
                      ~(Len(calls[t]) > 0 /\ LastCall(t).cycle = cycle)
            /\ \A i \in LogsFor(s, cycle) :
                  IF results[s].kind = "exception"
                  THEN /\ ~sync_logs[i].success
                       /\ sync_logs[i].error_message = results[s].message
                  ELSE /\ sync_logs[i].success
                       /\ sync_logs[i].beacons_in_feed = Len(results[s].beacons)
                       /\ results[s].beacons # <<>>

\* a finished cycle in which the tasks finished in another order than they were
\* listed, two sources with different feeds were reconciled and logged
C35_Witness ==
    /\ CycleDone
    /\ done # Tasks
    /\ Len(done) = Len(Tasks)
    /\ \E s, t \in Sources :
          /\ SyncCommitted(s)
          /\ SyncCommitted(t)
          /\ Len(results[s].beacons) # Len(results[t].beacons)
          /\ LogsFor(s, cycle) # {}
          /\ LogsFor(t, cycle) # {}

\* every invocation of run_sync_task has returned or raised
BothFinished == \A c \in Invocations : tasks[c].pc \in {"returned", "raised"}

\* both invocations called sync_beacons_to_db for s, and neither call raised
SyncedByBoth(s) ==
    /\ Len(calls[s]) = 2
    /\ calls[s][1].cycle # calls[s][2].cycle
    /\ ~calls[s][1].raised
    /\ ~calls[s][2].raised

\* C36: when two invocations of run_sync_task overlap, no source ever has two active
\* rows with one external_id (the feeds repeat no id), and after both have finished the
\* active external_ids of every source whose last reconciliation committed are those
\* of the feed of the invocation that reconciled it last; for the sources both
\* invocations reconciled that is one and the same invocation, the one whose
\* "with Session" block ran last.
C36_LastReconciliationWins ==
    /\ \A s \in Sources, e \in ExternalIds :
          Cardinality({i \in ExistingBeacons(beacons, s) : beacons[i].external_id = e}) <= 1
    /\ BothFinished =>
          /\ \A s \in Sources :
                (Len(calls[s]) > 0 /\ ~LastCall(s).raised) =>
                    /\ ActiveIds(beacons, s) =
                          {LastCall(s).feed[k].external_id : k \in DOMAIN LastCall(s).feed}
                    /\ \E c \in Invocations :
                          /\ CycleOf(c) = LastCall(s).cycle
                          /\ LastCall(s).feed = tasks[c].results[s].beacons
          /\ \A s, t \in Sources :
                (SyncedByBoth(s) /\ SyncedByBoth(t)) => LastCall(s).cycle = LastCall(t).cycle

\* both invocations have returned; the start-up invocation, which started earlier,
\* reconciled a source after the scheduled one had, with another feed, and the active
\* beacons of the source are those of the start-up invocation's feed
C36_Witness ==
    /\ \A c \in Invocations : tasks[c].pc = "returned"
    /\ \E s \in Sources :
          /\ SyncedByBoth(s)
          /\ calls[s][1].cycle = CycleOf("scheduled")
          /\ calls[s][2].cycle = CycleOf("startup")
          /\ calls[s][1].feed[1].external_id # calls[s][2].feed[1].external_id
          /\ ActiveIds(beacons, s) = {calls[s][2].feed[1].external_id}

\* C37: no two requests _rate_limited_request sends to the Overpass service start less
\* than MIN_REQUEST_INTERVAL apart, also when coroutines call it concurrently and when
\* the request before ended with an exception.
C37_RequestsSpaced ==
    geo.starts.prev # NULL => geo.starts.last - geo.starts.prev >= MIN_REQUEST_INTERVAL

\* C38: a stored score is returned for a rounded coordinate key only while its entry
\* is younger than CACHE_TTL_SECONDS; an entry is only ever written with a score
\* computed from a response, at the time it came, so the 50.0 of a failed query is not
\* stored; calculate_isolation_score_sync sends no request.
C38_CacheHoldsComputedScores ==
    [][/\ (geo'.out # geo.out /\ geo'.out.origin = "cache") =>
             /\ geo.isolation_cache[geo'.out.key].present
             /\ geo.isolation_cache[geo'.out.key].score = geo'.out.value
             /\ geo.now - geo.isolation_cache[geo'.out.key].timestamp < CACHE_TTL_SECONDS
       /\ \A k \in DOMAIN geo.isolation_cache :
             geo'.isolation_cache[k] # geo.isolation_cache[k] =>
                 /\ geo'.out.origin = "response"
                 /\ geo'.out.key = k
                 /\ geo'.out.at = geo.now
                 /\ geo'.isolation_cache[k] = Entry(geo'.out.value, geo.now)
                 /\ \E c \in Coroutines : geo.co[c].pc = "posting" /\ geo'.co[c].pc = "idle"
       /\ (geo'.out # geo.out /\ geo'.out.who = "sync") =>
             /\ geo'.starts = geo.starts
             /\ geo'.co = geo.co
             /\ geo'.last_request_time = geo.last_request_time
             /\ geo'.isolation_cache = geo.isolation_cache]_vars

\* an entry that holds a computed 50.0 is as old as the time to live, and the
\* synchronous wrapper, asked for its key, returned its default
C38_Witness ==
    /\ geo.out.who = "sync"
    /\ geo.out.origin = "default"
    /\ geo.isolation_cache[geo.out.key] = Entry(FallbackScore, MIN_REQUEST_INTERVAL)
    /\ geo.now - geo.isolation_cache[geo.out.key].timestamp = CACHE_TTL_SECONDS

\* --------------------------------------------------------------------- C39
\* the response the claim expects of a rebuild: one feature per row active now
ActiveNow == FeatureCollection({Feature(beacons[i]) : i \in {j \in DOMAIN beacons : beacons[j].is_active}})

\* C39: a request to get_beacons is answered with the cached response if and only if
\* that response was built less than 15 seconds before; otherwise the response is built
\* from the beacons active at that moment, cached with the time of the request, and
\* returned.
C39_CachedOrRebuilt ==
    [][api'.requests # api.requests =>
         IF api.cache.data.present
            /\ api.now - api.cache.last_update < BeaconsCacheSeconds
         THEN /\ ~api'.out.raised
              /\ api'.out.cached
              /\ api'.out.value = api.cache.data
              /\ api'.cache = api.cache
         ELSE /\ ~api'.out.raised
              /\ ~api'.out.cached
              /\ api'.out.value = ActiveNow
              /\ api'.cache = [data |-> ActiveNow, last_update |-> api.now]]_vars

====
